---- MODULE Spec2Model ----
(***************************************************************************)
(* Shift scheduler of shift_light: generateShiftTable and its helpers      *)
(* (getDaysInMonth, getWeekIndex, assignShift, Pass1, Pass2, the reports). *)
(* One run is a behaviour: the grid and the counters start empty, the      *)
(* requested days off are written, Pass1 and Pass2 call assignShift one    *)
(* call per step, and the reports are emitted.                             *)
(***************************************************************************)
EXTENDS Integers, Sequences, FiniteSets, TLC

VARIABLES
    staffList,       \* Staff[]: the worker list of the run
    targetYear,      \* useState targetYear
    targetMonth,     \* useState targetMonth (0-based)
    tzOffset,        \* minutes the environment's local time is ahead of UTC
    daysInMonth,     \* const daysInMonth of the run
    assignments,     \* Record<name, Record<day, Assignment>>
    weeklyCounts,    \* Record<name, Record<weekIndex, number>>
    monthlyCounts,   \* Record<name, number>
    remainingDemand, \* Record<day, {E, D, N}>
    pc,              \* position of the run
    curDay,          \* loop variable d of the running loop
    curShift,        \* index into shiftOrder of the running forEach
    lastCall,        \* the last assignShift call: its arguments, result and chosen worker
    workerReport,    \* the worker shortfall warnings, in emission order
    demandReport,    \* the demand shortfall warnings, in emission order
    supplyReport,    \* the warnings of the last checkSupplyDemand, in emission order
    weekOfDay,       \* the last result of getWeekIndex
    staffMasters,    \* useState staffMasters: StaffMaster[]
    monthlyInputs,   \* useState monthlyInputs: MonthlyInput[]
    editingId,       \* useState editingId: 0 stands for null
    form,            \* useState name, selectedDays, selectedShifts, maxPerWeek, exactPerMonth
    issued           \* the number of ids crypto.randomUUID has returned

vars == <<staffList, targetYear, targetMonth, tzOffset, daysInMonth, assignments,
          weeklyCounts, monthlyCounts, remainingDemand, pc, curDay, curShift,
          lastCall, workerReport, demandReport, supplyReport, weekOfDay,
          staffMasters, monthlyInputs, editingId, form, issued>>

\* The registration form and the id under edit.
formState == <<editingId, form, issued>>

\* The state of the component that staffList is computed from, and the form
\* the masters are entered with.
registry == <<staffMasters, monthlyInputs, formState>>

\* What assignShift and the passes only read or never touch, the worker list
\* aside.
env == <<targetYear, targetMonth, tzOffset, daysInMonth, supplyReport, weekOfDay,
         registry>>

inputs == <<staffList, env>>

-----------------------------------------------------------------------------
(* Bounds of the model *)

\* Longest worker list a run is given.
MaxStaff == 3

-----------------------------------------------------------------------------
(* Calendar: JavaScript Date on the proleptic Gregorian calendar.  A local  *)
(* date is the number of days from 1970-01-01 to it.                        *)

\* Days from 1970-01-01 to the civil date y-m-d, m in 1..12.
DaysFromCivil(y, m, d) ==
    LET yy  == IF m <= 2 THEN y - 1 ELSE y
        era == yy \div 400
        yoe == yy - era * 400
        mp  == IF m > 2 THEN m - 3 ELSE m + 9
        doy == (153 * mp + 2) \div 5 + d - 1
        doe == yoe * 365 + yoe \div 4 - yoe \div 100 + doy
    IN  era * 146097 + doe - 719468

\* The civil date [y, m, d] (m in 1..12) of a day number.
CivilFromDays(z) ==
    LET zz  == z + 719468
        era == zz \div 146097
        doe == zz - era * 146097
        yoe == (doe - doe \div 1460 + doe \div 36524 - doe \div 146096) \div 365
        doy == doe - (365 * yoe + yoe \div 4 - yoe \div 100)
        mp  == (5 * doy + 2) \div 153
        d   == doy - (153 * mp + 2) \div 5 + 1
        m   == IF mp < 10 THEN mp + 3 ELSE mp - 9
        y   == yoe + era * 400 + (IF m <= 2 THEN 1 ELSE 0)
    IN  [y |-> y, m |-> m, d |-> d]

\* new Date(year, month, date): month is 0-based and may overflow, date may be 0.
NewDate(year, month, date) ==
    DaysFromCivil(year + month \div 12, (month % 12) + 1, 1) + date - 1

\* Date.prototype.getDay: 0 = Sunday; 1970-01-01 was a Thursday.
GetDay(date) == (date + 4) % 7

\* Date.prototype.getDate
GetDate(date) == CivilFromDays(date).d

\* date.toISOString().split('T')[0]: the UTC calendar date of local midnight.
ISODate(date, tz) ==
    LET c == CivilFromDays((date * 1440 - tz) \div 1440)
    IN  <<c.y, c.m, c.d>>

\* getDaysInMonth without the + 1: day 0 of the month itself.
getDaysInMonthOfPrevious(year, month) == GetDate(NewDate(year, month, 0))

getDaysInMonth(year, month) == GetDate(NewDate(year, month + 1, 0))

\* getWeekIndex without the shift of the weekday: weeks anchored to Sunday.
getWeekIndexFromSunday(date) ==
    LET c      == CivilFromDays(date)
        first  == DaysFromCivil(c.y, c.m, 1)
        offset == GetDay(first)
    IN  (c.d + offset - 1) \div 7

getWeekIndex(date) ==
    LET c      == CivilFromDays(date)
        first  == DaysFromCivil(c.y, c.m, 1)
        offset == (GetDay(first) + 6) % 7
    IN  (c.d + offset - 1) \div 7

-----------------------------------------------------------------------------
(* Constant data *)

\* getDay() values, the index of the weekday name in `weekdays`.
Sun == 0
Mon == 1
Tue == 2
Wed == 3
Thu == 4
Fri == 5
Sat == 6
AllDays == 0 .. 6

shiftOrder == <<"E", "D", "N">>

demandPerWeekday(w) ==
    IF w = Wed THEN [E |-> 1, D |-> 1, N |-> 2]
               ELSE [E |-> 1, D |-> 3, N |-> 2]

-----------------------------------------------------------------------------
(* Inputs of a run *)

\* A Staff record: the StaffMaster fields and the day-off dates (<<y, m, d>>,
\* the 'YYYY-MM-DD' strings of the date picker) of the target month.
Staff(id, name, days, shifts, maxPerWeek, exactPerMonth, dayOffs) ==
    [id |-> id, name |-> name, days |-> days, shifts |-> shifts,
     maxPerWeek |-> maxPerWeek, exactPerMonth |-> exactPerMonth,
     dayOffs |-> dayOffs]

\* The days of the month a roster member asks off.
OffDays == {2, 15}

\* The registered workers the runs draw their lists from; off holds the days
\* of the target month the worker asks off.
Roster == <<
    [name |-> "a", days |-> AllDays, shifts |-> {"E", "D", "N"},
     maxPerWeek |-> 5, exactPerMonth |-> 20, off |-> {}],
    [name |-> "b", days |-> AllDays, shifts |-> {"N"},
     maxPerWeek |-> 1, exactPerMonth |-> 10, off |-> OffDays],
    [name |-> "g", days |-> {Tue, Wed}, shifts |-> {"E"},
     maxPerWeek |-> 5, exactPerMonth |-> 20, off |-> {}],
    [name |-> "h", days |-> {Wed}, shifts |-> {"DL"},
     maxPerWeek |-> 5, exactPerMonth |-> 20, off |-> {}],
    [name |-> "w", days |-> {Tue, Wed, Thu}, shifts |-> {"E", "D"},
     maxPerWeek |-> 3, exactPerMonth |-> 12, off |-> {}],
    [name |-> "a", days |-> AllDays, shifts |-> {"D"},
     maxPerWeek |-> 2, exactPerMonth |-> 4, off |-> {}],
    [name |-> "c", days |-> AllDays, shifts |-> {"N"},
     maxPerWeek |-> 1, exactPerMonth |-> 8, off |-> {}],
    [name |-> "x", days |-> {Wed}, shifts |-> {"E"},
     maxPerWeek |-> 5, exactPerMonth |-> 4, off |-> {}],
    [name |-> "y", days |-> {Wed}, shifts |-> {"E"},
     maxPerWeek |-> 5, exactPerMonth |-> 4, off |-> {}] >>

\* Records the form and the stored list let through although a run has no
\* defined behaviour for them: a weekly ceiling of 0 (with an odd quota), a
\* negative quota, an empty capability set.
Malformed == <<
    [name |-> "m", days |-> AllDays, shifts |-> {"E", "N"},
     maxPerWeek |-> 0, exactPerMonth |-> 7, off |-> {}],
    [name |-> "n", days |-> AllDays, shifts |-> {"E", "D", "N"},
     maxPerWeek |-> 5, exactPerMonth |-> -1, off |-> OffDays],
    [name |-> "o", days |-> AllDays, shifts |-> {},
     maxPerWeek |-> 5, exactPerMonth |-> 20, off |-> {}] >>

\* Every record staffMasters can hold: ids 1 .. Len(Roster) are the roster's,
\* the ids after them the malformed ones.
Registered == Roster \o Malformed

MalformedIds == Len(Roster) + 1 .. Len(Registered)

\* The worker lists: the registered workers with ids in S, in id order.
ListOf(S, year, month) ==
    [i \in 1 .. Cardinality(S) |->
        LET id == CHOOSE x \in S : Cardinality({y \in S : y < x}) = i - 1
            r  == Registered[id]
        IN  Staff(id, r.name, r.days, r.shifts, r.maxPerWeek, r.exactPerMonth,
                  {<<year, month + 1, d>> : d \in r.off})]

\* <<targetYear, targetMonth>>: 31 days from a Tuesday, 28 from a Monday,
\* 29 from a Tuesday, 30 from a Sunday.
TargetMonths == {<<2026, 11>>, <<2027, 1>>, <<2028, 1>>, <<2026, 10>>}

\* The thirty-day months, one for each weekday of day 1 (Sunday .. Saturday).
ThirtyDayMonths == {<<2026, 10>>, <<2027, 10>>, <<2027, 5>>, <<2027, 8>>,
                    <<2027, 3>>, <<2028, 8>>, <<2028, 3>>}

\* UTC and Japan Standard Time (UTC+9), in minutes ahead of UTC.
TzOffsets == {0, 540}

-----------------------------------------------------------------------------
(* Staff registry: staffMasters, monthlyInputs and the view staffList *)

\* `${targetYear}-${String(targetMonth + 1).padStart(2, '0')}`: the year and
\* the 1-based month; two keys are equal exactly when both numbers are.
monthKey(year, month) == <<year, month + 1>>

\* The StaffMaster fields of a Staff record.
StaffMasterOf(s) ==
    [id |-> s.id, name |-> s.name, days |-> s.days, shifts |-> s.shifts,
     maxPerWeek |-> s.maxPerWeek, exactPerMonth |-> s.exactPerMonth]

\* StaffListOf with find matching on the staffId alone: the first entry of
\* the worker, of whatever month.
StaffListOfAnyMonth(masters, minputs, key) ==
    [i \in DOMAIN masters |->
        LET s    == masters[i]
            hits == {j \in DOMAIN minputs : minputs[j].staffId = s.id}
        IN  Staff(s.id, s.name, s.days, s.shifts, s.maxPerWeek, s.exactPerMonth,
                  IF hits = {} THEN {}
                  ELSE minputs[CHOOSE j \in hits : \A k \in hits : j <= k].dayOffs)]

\* The value of the useMemo staffList: each master with the dayOffs of the
\* first monthly input of its id and the month key, [] when find finds none.
StaffListOf(masters, minputs, key) ==
    [i \in DOMAIN masters |->
        LET s    == masters[i]
            hits == {j \in DOMAIN minputs :
                        minputs[j].staffId = s.id /\ minputs[j].month = key}
        IN  Staff(s.id, s.name, s.days, s.shifts, s.maxPerWeek, s.exactPerMonth,
                  IF hits = {} THEN {}
                  ELSE minputs[CHOOSE j \in hits : \A k \in hits : j <= k].dayOffs)]

\* The monthly inputs a worker list of the month comes from: one entry for
\* each worker with days off, in list order.
StoredInputs(list, year, month) ==
    LET entry(s) == [staffId |-> s.id, month |-> monthKey(year, month),
                     dayOffs |-> s.dayOffs]
        all      == [i \in DOMAIN list |-> entry(list[i])]
    IN  SelectSeq(all, LAMBDA mi : mi.dayOffs # {})

\* monthlyInputs after the updater of handleDayOffChange(staffId, dates): the
\* entry of (staffId, key) gets the dayOffs, a new entry is appended when
\* findIndex finds none.
DayOffChanged(minputs, staffId, key, dayOffs) ==
    LET hits == {j \in DOMAIN minputs :
                    minputs[j].staffId = staffId /\ minputs[j].month = key}
    IN  IF hits # {}
           THEN LET idx == CHOOSE j \in hits : \A k \in hits : j <= k
                IN  [minputs EXCEPT ![idx] = [minputs[idx] EXCEPT !.dayOffs = dayOffs]]
           ELSE Append(minputs, [staffId |-> staffId, month |-> key, dayOffs |-> dayOffs])

\* The form after the first render and after the reset of handleSubmit:
\* useState(''), useState([]), useState([]), useState(5), useState(20).
BlankForm ==
    [name |-> "", selectedDays |-> {}, selectedShifts |-> {},
     maxPerWeek |-> 5, exactPerMonth |-> 20]

\* No id under edit, the blank form, no id drawn yet.
FormAtRest ==
    /\ editingId = 0
    /\ form = BlankForm
    /\ issued = 0

-----------------------------------------------------------------------------
(* State of a run *)

Names == {staffList[i].name : i \in DOMAIN staffList}

Days == 1 .. daysInMonth

\* assignments[name][d]; a key that was never written reads as undefined.
Cell(name, d) ==
    IF d \in DOMAIN assignments[name] THEN assignments[name][d] ELSE "undefined"

\* (weeklyCounts[name][k] || 0)
WeeklyCount(name, k) ==
    IF k \in DOMAIN weeklyCounts[name] THEN weeklyCounts[name][k] ELSE 0

\* (monthlyCounts[name] || 0)
MonthlyCount(name) ==
    IF name \in DOMAIN monthlyCounts THEN monthlyCounts[name] ELSE 0

\* obj[k] = v on a JavaScript object: the key is created when it is missing.
Put(obj, k, v) == [x \in DOMAIN obj \cup {k} |-> IF x = k THEN v ELSE obj[x]]

-----------------------------------------------------------------------------
(* checkSupplyDemand *)

RECURSIVE DemandUpTo(_, _, _)
\* demand after the loop over d has run for the days 1 .. n.
DemandUpTo(year, month, n) ==
    IF n = 0 THEN [E |-> 0, D |-> 0, N |-> 0]
    ELSE LET prev  == DemandUpTo(year, month, n - 1)
             daily == demandPerWeekday(GetDay(NewDate(year, month, n)))
         IN  [E |-> prev.E + daily.E, D |-> prev.D + daily.D, N |-> prev.N + daily.N]

\* SupplyUpTo with Math.floor(exactPerMonth / 2) rounded up instead.
RECURSIVE SupplyUpToCeil(_, _)
SupplyUpToCeil(list, n) ==
    IF n = 0 THEN [E |-> 0, D |-> 0, N |-> 0]
    ELSE LET prev      == SupplyUpToCeil(list, n - 1)
             s         == list[n]
             night     == IF "N" \in s.shifts THEN (s.exactPerMonth + 1) \div 2 ELSE 0
             remaining == s.exactPerMonth - night * 2
         IN  [E |-> prev.E + (IF "E" \in s.shifts THEN remaining ELSE 0),
              D |-> prev.D + (IF "D" \in s.shifts THEN remaining ELSE 0),
              N |-> prev.N + night]

RECURSIVE SupplyUpTo(_, _)
\* supply after staffList.forEach has visited the first n workers.
SupplyUpTo(list, n) ==
    IF n = 0 THEN [E |-> 0, D |-> 0, N |-> 0]
    ELSE LET prev      == SupplyUpTo(list, n - 1)
             s         == list[n]
             night     == IF "N" \in s.shifts THEN s.exactPerMonth \div 2 ELSE 0
             remaining == s.exactPerMonth - night * 2
         IN  [E |-> prev.E + (IF "E" \in s.shifts THEN remaining ELSE 0),
              D |-> prev.D + (IF "D" \in s.shifts THEN remaining ELSE 0),
              N |-> prev.N + night]

\* The warnings <<shift, shortfall>> checkSupplyDemand emits, in the order
\* E, D, N, for the worker list and the target month.
checkSupplyDemand(list, year, month) ==
    LET demand  == DemandUpTo(year, month, getDaysInMonth(year, month))
        supply  == SupplyUpTo(list, Len(list))
        warn(k) == IF demand[k] > supply[k] THEN << <<k, demand[k] - supply[k]>> >>
                                            ELSE << >>
    IN  warn("E") \o warn("D") \o warn("N")

-----------------------------------------------------------------------------
(* Start of a run *)

\* The locals of generateShiftTable after its initialisation, for the worker
\* list of the component's state.
RunState(list, year, month, tz) ==
    /\ staffList = list
    /\ targetYear = year
    /\ targetMonth = month
    /\ tzOffset = tz
    /\ daysInMonth = getDaysInMonth(year, month)
    /\ assignments = [n \in {list[i].name : i \in DOMAIN list} |->
                         [d \in 1 .. getDaysInMonth(year, month) |-> ""]]
    /\ weeklyCounts = [n \in {list[i].name : i \in DOMAIN list} |-> <<>>]
    /\ monthlyCounts = [n \in {list[i].name : i \in DOMAIN list} |-> 0]
    /\ remainingDemand = [d \in 1 .. getDaysInMonth(year, month) |->
                             demandPerWeekday(GetDay(NewDate(year, month, d)))]
    /\ curDay = 1
    /\ curShift = 1
    /\ lastCall = [d |-> 0, shift |-> "", ok |-> FALSE, chosen |-> 0]
    /\ workerReport = <<>>
    /\ demandReport = <<>>
    /\ staffMasters = [i \in DOMAIN list |-> StaffMasterOf(list[i])]
    /\ monthlyInputs = StoredInputs(list, year, month)
    /\ FormAtRest

\* The state after the initialisation of generateShiftTable: checkSupplyDemand
\* has emitted its warnings, every cell of every listed worker is '', the
\* counters are empty and zero, the remaining demand is the demand table's
\* value for each day's weekday.
InitRun(list, year, month, tz) ==
    /\ supplyReport = checkSupplyDemand(list, year, month)
    /\ weekOfDay = 0
    /\ pc = "dayoffs"
    /\ RunState(list, year, month, tz)

Init ==
    \E S \in SUBSET (1 .. Len(Roster)), ym \in TargetMonths, tz \in TzOffsets :
        /\ Cardinality(S) \in 1 .. MaxStaff
        /\ InitRun(ListOf(S, ym[1], ym[2]), ym[1], ym[2], tz)

-----------------------------------------------------------------------------
(* Set requested day offs: one iteration of the loop over d *)

SetDayOffs ==
    /\ pc = "dayoffs"
    /\ LET dateStr == ISODate(NewDate(targetYear, targetMonth, curDay), tzOffset)
           off     == {staffList[i].name : i \in
                          {j \in DOMAIN staffList : dateStr \in staffList[j].dayOffs}}
       IN  assignments' = [n \in DOMAIN assignments |->
                              IF n \in off THEN Put(assignments[n], curDay, "OFF")
                                           ELSE assignments[n]]
    /\ IF curDay < daysInMonth
          THEN /\ curDay' = curDay + 1
               /\ pc' = pc
          ELSE /\ curDay' = 1
               /\ pc' = "pass1"
    /\ UNCHANGED <<inputs, weeklyCounts, monthlyCounts, remainingDemand, curShift,
                   lastCall, workerReport, demandReport>>

-----------------------------------------------------------------------------
(* assignShift *)

Remaining(s) == s.exactPerMonth - MonthlyCount(s.name)

\* Early: the capability and no Day or LateDay on the day before.
EarlyOk(s, d) ==
    /\ "E" \in s.shifts
    /\ Cell(s.name, d - 1) \notin {"D", "DL"}

\* Day: the Day or the LateDay capability.
DayOk(s) == "D" \in s.shifts \/ "DL" \in s.shifts

\* NightOk without its look at the cell of d + 1.
NightOkNextCellIgnored(s, d) ==
    /\ "N" \in s.shifts
    /\ d # daysInMonth
    /\ WeeklyCount(s.name, getWeekIndex(NewDate(targetYear, targetMonth, d + 1)))
          < s.maxPerWeek
    /\ Remaining(s) >= 2

\* NightOk without its test for the last day of the month and with a
\* truthiness test of the cell of d + 1, which a missing key passes.
NightOkOnLastDay(s, d) ==
    /\ "N" \in s.shifts
    /\ Cell(s.name, d + 1) \in {"", "undefined"}
    /\ WeeklyCount(s.name, getWeekIndex(NewDate(targetYear, targetMonth, d + 1)))
          < s.maxPerWeek
    /\ Remaining(s) >= 2

\* Night: the capability, not the last day, the cell of d + 1 empty, a free
\* weekly slot in the week of d + 1, and two monthly slots left.
NightOk(s, d) ==
    /\ "N" \in s.shifts
    /\ d # daysInMonth
    /\ Cell(s.name, d + 1) = ""
    /\ WeeklyCount(s.name, getWeekIndex(NewDate(targetYear, targetMonth, d + 1)))
          < s.maxPerWeek
    /\ Remaining(s) >= 2

\* WeekOk with the comparison off by one.
WeekOkOffByOne(s, d) ==
    WeeklyCount(s.name, getWeekIndex(NewDate(targetYear, targetMonth, d)))
        <= s.maxPerWeek

\* The weekly cap: a free weekly slot in the week of d.
WeekOk(s, d) ==
    WeeklyCount(s.name, getWeekIndex(NewDate(targetYear, targetMonth, d)))
        < s.maxPerWeek

\* Eligible without its test that the cell of d is empty.
EligibleCellIgnored(i, d, shift) ==
    LET s == staffList[i]
    IN  /\ GetDay(NewDate(targetYear, targetMonth, d)) \in s.days
        /\ Remaining(s) > 0
        /\ shift = "E" => EarlyOk(s, d)
        /\ shift = "D" => DayOk(s)
        /\ shift = "N" => NightOk(s, d)
        /\ WeekOk(s, d)

\* The filter of assignShift: is staffList[i] a candidate for shift on day d?
Eligible(i, d, shift) ==
    LET s == staffList[i]
    IN  /\ Cell(s.name, d) = ""
        /\ GetDay(NewDate(targetYear, targetMonth, d)) \in s.days
        /\ Remaining(s) > 0
        /\ shift = "E" => EarlyOk(s, d)
        /\ shift = "D" => DayOk(s)
        /\ shift = "N" => NightOk(s, d)
        /\ WeekOk(s, d)

Candidates(d, shift) == {i \in DOMAIN staffList : Eligible(i, d, shift)}

\* The comparator of candidates.sort: TRUE when a sorts strictly before b.
Before(a, b, d) ==
    LET weekIndex == getWeekIndex(NewDate(targetYear, targetMonth, d))
        remA  == Remaining(staffList[a])
        remB  == Remaining(staffList[b])
        weekA == staffList[a].maxPerWeek - WeeklyCount(staffList[a].name, weekIndex)
        weekB == staffList[b].maxPerWeek - WeeklyCount(staffList[b].name, weekIndex)
    IN  \/ remA > remB
        \/ remA = remB /\ weekA > weekB

\* First without the sort: candidates[0] of the array filter returned can be
\* any candidate.
FirstUnsorted(d, shift) == Candidates(d, shift)

\* The workers candidates[0] can be after the sort: no candidate sorts
\* strictly before them; Math.random() orders the tied ones either way.
First(d, shift) ==
    {i \in Candidates(d, shift) : \A j \in Candidates(d, shift) : ~Before(j, i, d)}

assignedShift(i, shift) ==
    IF shift = "D" THEN (IF "D" \in staffList[i].shifts THEN "D" ELSE "DL")
                   ELSE shift

\* AssignCells with the rest day before the Night: AK on d, N on d + 1.
AssignCellsRestFirst(i, d, shift) ==
    LET name == staffList[i].name
        row1 == Put(assignments[name], d,
                    IF shift = "N" THEN "AK" ELSE assignedShift(i, shift))
        row2 == IF shift = "N" THEN Put(row1, d + 1, "N") ELSE row1
    IN  [assignments EXCEPT ![name] = row2]

\* The grid after assignShift(d, shift) chose staffList[i].
AssignCells(i, d, shift) ==
    LET name == staffList[i].name
        row1 == Put(assignments[name], d, assignedShift(i, shift))
        row2 == IF shift = "N" THEN Put(row1, d + 1, "AK") ELSE row1
    IN  [assignments EXCEPT ![name] = row2]

\* AssignWeekly without the slot of the rest day: a Night counts once, in the
\* week of d.
AssignWeeklyRestFree(i, d, shift) ==
    LET name      == staffList[i].name
        weekIndex == getWeekIndex(NewDate(targetYear, targetMonth, d))
    IN  [weeklyCounts EXCEPT ![name] =
            Put(weeklyCounts[name], weekIndex, WeeklyCount(name, weekIndex) + 1)]

\* The weekly counters after assignShift(d, shift) chose staffList[i].
AssignWeekly(i, d, shift) ==
    LET name          == staffList[i].name
        weekIndex     == getWeekIndex(NewDate(targetYear, targetMonth, d))
        nextWeekIndex == getWeekIndex(NewDate(targetYear, targetMonth, d + 1))
        w1 == Put(weeklyCounts[name], weekIndex, WeeklyCount(name, weekIndex) + 1)
        w2 == IF shift = "N"
                 THEN Put(w1, nextWeekIndex,
                          (IF nextWeekIndex \in DOMAIN w1 THEN w1[nextWeekIndex] ELSE 0) + 1)
                 ELSE w1
    IN  [weeklyCounts EXCEPT ![name] = w2]

\* AssignMonthly without the increment.
AssignMonthlyUnchanged(i, shift) == monthlyCounts

\* The monthly counters after assignShift(d, shift) chose staffList[i].
AssignMonthly(i, shift) ==
    LET name == staffList[i].name
    IN  [monthlyCounts EXCEPT ![name] = MonthlyCount(name) + (IF shift = "N" THEN 2 ELSE 1)]

\* AssignDemand without its test that the counter is positive.
AssignDemandUnguarded(d, shift) ==
    [remainingDemand EXCEPT ![d][shift] = remainingDemand[d][shift] - 1]

\* The remaining demand after an assignment for shift on day d.
AssignDemand(d, shift) ==
    IF remainingDemand[d][shift] > 0
       THEN [remainingDemand EXCEPT ![d][shift] = remainingDemand[d][shift] - 1]
       ELSE remainingDemand

\* StaffListAfter had candidates.sort run on staffList itself: the chosen
\* worker is moved to the front.
StaffListSortedInPlace(i) ==
    <<staffList[i]>> \o SelectSeq(staffList, LAMBDA s : s # staffList[i])

\* staffList after assignShift chose staffList[i]: filter returned a fresh
\* array, sort reordered that array, and no field of a Staff was written.
StaffListAfter(i) == staffList

\* assignShift(d, shift) returning true: some first-sorted candidate is chosen.
AssignTrue(d, shift) ==
    \E i \in First(d, shift) :
        /\ staffList' = StaffListAfter(i)
        /\ assignments' = AssignCells(i, d, shift)
        /\ weeklyCounts' = AssignWeekly(i, d, shift)
        /\ monthlyCounts' = AssignMonthly(i, shift)
        /\ remainingDemand' = AssignDemand(d, shift)
        /\ lastCall' = [d |-> d, shift |-> shift, ok |-> TRUE, chosen |-> i]

\* assignShift(d, shift) returning false: there is no candidate.
AssignFalse(d, shift) ==
    /\ Candidates(d, shift) = {}
    /\ lastCall' = [d |-> d, shift |-> shift, ok |-> FALSE, chosen |-> 0]
    /\ UNCHANGED <<staffList, assignments, weeklyCounts, monthlyCounts, remainingDemand>>

staffHasRemaining == \E i \in DOMAIN staffList : Remaining(staffList[i]) > 0

-----------------------------------------------------------------------------
(* Pass1 and Pass2: one iteration of the inner while loop per step *)

\* Advance with a break that leaves the loops over the days and the shifts
\* too: the pass ends.
AdvanceToEnd(next) ==
    /\ curDay' = 1
    /\ curShift' = 1
    /\ pc' = next

\* Leave the while loop of (curDay, curShift): the next shift, the next day,
\* or the end of the pass.
Advance(next) ==
    IF curShift < Len(shiftOrder)
       THEN /\ curShift' = curShift + 1
            /\ UNCHANGED <<curDay, pc>>
       ELSE IF curDay < daysInMonth
               THEN /\ curDay' = curDay + 1
                    /\ curShift' = 1
                    /\ pc' = pc
               ELSE /\ curDay' = 1
                    /\ curShift' = 1
                    /\ pc' = next

\* Pass1: the demand of (d, shift) is open and assignShift returns true.
Pass1Assign ==
    /\ pc = "pass1"
    /\ remainingDemand[curDay][shiftOrder[curShift]] > 0
    /\ AssignTrue(curDay, shiftOrder[curShift])
    /\ UNCHANGED <<env, pc, curDay, curShift, workerReport, demandReport>>

\* Pass1: the demand of (d, shift) is open and assignShift returns false: break.
Pass1Break ==
    /\ pc = "pass1"
    /\ remainingDemand[curDay][shiftOrder[curShift]] > 0
    /\ AssignFalse(curDay, shiftOrder[curShift])
    /\ Advance(IF staffHasRemaining THEN "pass2" ELSE "report")
    /\ UNCHANGED <<env, workerReport, demandReport>>

\* Pass1: the demand of (d, shift) is met, the while loop ends.
Pass1Met ==
    /\ pc = "pass1"
    /\ remainingDemand[curDay][shiftOrder[curShift]] = 0
    /\ Advance(IF staffHasRemaining THEN "pass2" ELSE "report")
    /\ UNCHANGED <<inputs, assignments, weeklyCounts, monthlyCounts, remainingDemand,
                   lastCall, workerReport, demandReport>>

\* Pass2: some worker has quota left and assignShift returns true.
Pass2Assign ==
    /\ pc = "pass2"
    /\ staffHasRemaining
    /\ AssignTrue(curDay, shiftOrder[curShift])
    /\ UNCHANGED <<env, pc, curDay, curShift, workerReport, demandReport>>

\* Pass2: some worker has quota left and assignShift returns false: break.
Pass2Break ==
    /\ pc = "pass2"
    /\ staffHasRemaining
    /\ AssignFalse(curDay, shiftOrder[curShift])
    /\ Advance("report")
    /\ UNCHANGED <<env, workerReport, demandReport>>

\* Pass2: no worker has quota left, the while loop ends.
Pass2Full ==
    /\ pc = "pass2"
    /\ ~staffHasRemaining
    /\ Advance("report")
    /\ UNCHANGED <<inputs, assignments, weeklyCounts, monthlyCounts, remainingDemand,
                   lastCall, workerReport, demandReport>>

-----------------------------------------------------------------------------
(* Post-run reports *)

RECURSIVE WorkerWarnings(_)
\* staffList.forEach: a warning <<name, remaining>> for each of the first n
\* workers with remaining > 0.
WorkerWarnings(n) ==
    IF n = 0 THEN <<>>
    ELSE LET s == staffList[n]
         IN  IF Remaining(s) > 0
                THEN Append(WorkerWarnings(n - 1), <<s.name, Remaining(s)>>)
                ELSE WorkerWarnings(n - 1)

\* A warning <<d, shift, remaining>> for each of the first n (day, shift)
\* pairs, in loop order, with remaining demand > 0.
DemandWarnings(n) ==
    LET day(i)   == ((i - 1) \div Len(shiftOrder)) + 1
        shift(i) == shiftOrder[((i - 1) % Len(shiftOrder)) + 1]
        all      == [i \in 1 .. n |->
                        <<day(i), shift(i), remainingDemand[day(i)][shift(i)]>>]
    IN  SelectSeq(all, LAMBDA w : w[3] > 0)

Report ==
    /\ pc = "report"
    /\ workerReport' = WorkerWarnings(Len(staffList))
    /\ demandReport' = DemandWarnings(daysInMonth * Len(shiftOrder))
    /\ pc' = "done"
    /\ UNCHANGED <<inputs, assignments, weeklyCounts, monthlyCounts, remainingDemand,
                   curDay, curShift, lastCall>>

-----------------------------------------------------------------------------

Next ==
    \/ SetDayOffs
    \/ Pass1Assign
    \/ Pass1Break
    \/ Pass1Met
    \/ Pass2Assign
    \/ Pass2Break
    \/ Pass2Full
    \/ Report

Spec == Init /\ [][Next]_vars

\* Runs over the thirty-day months, for the lists that hold roster member 1.
InitThirty ==
    \E S \in SUBSET (1 .. Len(Roster)), ym \in ThirtyDayMonths, tz \in TzOffsets :
        /\ Cardinality(S) \in 1 .. MaxStaff
        /\ 1 \in S
        /\ InitRun(ListOf(S, ym[1], ym[2]), ym[1], ym[2], tz)

SpecThirty == InitThirty /\ [][Next]_vars

\* <<ids of the list, targetYear, targetMonth, tzOffset>> of the runs that
\* are followed to their end: a run with days off moved by the time zone, a
\* run whose workers all use up their quota, a run of two workers with one
\* name, a run of two Night workers.
LiveRuns == {<<{1, 2}, 2026, 11, 540>>, <<{8, 9}, 2027, 1, 0>>,
             <<{1, 6}, 2027, 1, 0>>, <<{2, 7}, 2028, 1, 0>>}

InitLive ==
    \E r \in LiveRuns : InitRun(ListOf(r[1], r[2], r[3]), r[2], r[3], r[4])

\* generateShiftTable is synchronous code: a statement that can run does run.
SpecLive == InitLive /\ [][Next]_vars /\ WF_vars(Next)

\* Runs over the lists that hold a malformed record.
InitMalformed ==
    \E S \in SUBSET (1 .. Len(Registered)), ym \in TargetMonths, tz \in TzOffsets :
        /\ Cardinality(S) \in 1 .. MaxStaff
        /\ S \cap MalformedIds # {}
        /\ InitRun(ListOf(S, ym[1], ym[2]), ym[1], ym[2], tz)

SpecMalformed == InitMalformed /\ [][Next]_vars

-----------------------------------------------------------------------------
(* checkSupplyDemand on its own: the call of the effect on staffList,        *)
(* targetYear and targetMonth, and the first statement of generateShiftTable *)

InitSupply ==
    \E S \in SUBSET (1 .. Len(Registered)), ym \in TargetMonths :
        /\ Cardinality(S) \in 0 .. MaxStaff
        /\ RunState(ListOf(S, ym[1], ym[2]), ym[1], ym[2], 0)
        /\ pc = "check"
        /\ supplyReport = << >>
        /\ weekOfDay = 0

CheckSupplyDemand ==
    /\ pc = "check"
    /\ supplyReport' = checkSupplyDemand(staffList, targetYear, targetMonth)
    /\ pc' = "checked"
    /\ UNCHANGED <<staffList, targetYear, targetMonth, tzOffset, daysInMonth,
                   assignments, weeklyCounts, monthlyCounts, remainingDemand,
                   curDay, curShift, lastCall, workerReport, demandReport, weekOfDay,
                   registry>>

SpecSupply == InitSupply /\ [][CheckSupplyDemand]_vars

-----------------------------------------------------------------------------
(* The calendar helpers on their own: getDaysInMonth of a selected month and *)
(* getWeekIndex of its days, one after the other                             *)

\* The years of the selected months: leap and common years, and the century
\* years 1900 and 2100 (common) and 2000 (leap).
CalendarYears == {1900, 2000, 2100} \cup (2024 .. 2030)

\* A month has been selected; nothing has been computed for it yet.
InitCalendar ==
    \E year \in CalendarYears, month \in 0 .. 11 :
        /\ targetYear = year
        /\ targetMonth = month
        /\ tzOffset = 0
        /\ daysInMonth = 0
        /\ staffList = << >>
        /\ assignments = << >>
        /\ weeklyCounts = << >>
        /\ monthlyCounts = << >>
        /\ remainingDemand = << >>
        /\ pc = "month"
        /\ curDay = 1
        /\ curShift = 1
        /\ lastCall = [d |-> 0, shift |-> "", ok |-> FALSE, chosen |-> 0]
        /\ workerReport = << >>
        /\ demandReport = << >>
        /\ supplyReport = << >>
        /\ weekOfDay = 0
        /\ staffMasters = << >>
        /\ monthlyInputs = << >>
        /\ FormAtRest

\* const daysInMonth = getDaysInMonth(year, month)
DaysInSelectedMonth ==
    /\ pc = "month"
    /\ daysInMonth' = getDaysInMonth(targetYear, targetMonth)
    /\ pc' = "first"
    /\ UNCHANGED <<staffList, targetYear, targetMonth, tzOffset,
                   assignments, weeklyCounts, monthlyCounts, remainingDemand,
                   curDay, curShift, lastCall, workerReport, demandReport,
                   supplyReport, weekOfDay, registry>>

\* getWeekIndex(new Date(targetYear, targetMonth, 1))
WeekIndexOfFirstDay ==
    /\ pc = "first"
    /\ weekOfDay' = getWeekIndex(NewDate(targetYear, targetMonth, 1))
    /\ pc' = "calendar"
    /\ UNCHANGED <<staffList, targetYear, targetMonth, tzOffset, daysInMonth,
                   assignments, weeklyCounts, monthlyCounts, remainingDemand,
                   curDay, curShift, lastCall, workerReport, demandReport,
                   supplyReport, registry>>

\* getWeekIndex(new Date(targetYear, targetMonth, d)) for the next day d.
WeekIndexOfNextDay ==
    /\ pc = "calendar"
    /\ curDay < daysInMonth
    /\ curDay' = curDay + 1
    /\ weekOfDay' = getWeekIndex(NewDate(targetYear, targetMonth, curDay + 1))
    /\ UNCHANGED <<staffList, targetYear, targetMonth, tzOffset, daysInMonth,
                   assignments, weeklyCounts, monthlyCounts, remainingDemand,
                   pc, curShift, lastCall, workerReport, demandReport,
                   supplyReport, registry>>

NextCalendar == DaysInSelectedMonth \/ WeekIndexOfFirstDay \/ WeekIndexOfNextDay

SpecCalendar == InitCalendar /\ [][NextCalendar]_vars

-----------------------------------------------------------------------------
(* The registry on its own: the handlers that change what staffList is       *)
(* computed from, each followed by the render and its effects                *)

\* The ids of the masters the stored list can hold: two workers of one name.
StoredIds == {1, 6}

\* The months of the target month select.
RegistryMonths == {<<2026, 11>>, <<2027, 1>>}

\* The dates of the date picker: it offers every date, of the target month
\* or not.
PickableDates == {<<2026, 12, 2>>, <<2027, 2, 15>>}

\* The component after its first render: the stored masters, no monthly
\* input, a target month, and no run yet.
InitRegistry ==
    \E S \in SUBSET StoredIds, ym \in RegistryMonths :
        /\ staffMasters = [i \in 1 .. Cardinality(S) |->
                              StaffMasterOf(ListOf(S, ym[1], ym[2])[i])]
        /\ monthlyInputs = << >>
        /\ targetYear = ym[1]
        /\ targetMonth = ym[2]
        /\ staffList = StaffListOf(staffMasters, monthlyInputs, monthKey(ym[1], ym[2]))
        /\ supplyReport = checkSupplyDemand(staffList, ym[1], ym[2])
        /\ tzOffset = 0
        /\ daysInMonth = 0
        /\ assignments = << >>
        /\ weeklyCounts = << >>
        /\ monthlyCounts = << >>
        /\ remainingDemand = << >>
        /\ pc = "ui"
        /\ curDay = 1
        /\ curShift = 1
        /\ lastCall = [d |-> 0, shift |-> "", ok |-> FALSE, chosen |-> 0]
        /\ workerReport = << >>
        /\ demandReport = << >>
        /\ weekOfDay = 0
        /\ FormAtRest

\* The render after a state update: useMemo recomputes staffList, and the
\* effect on staffList, targetYear and targetMonth calls checkSupplyDemand.
Rendered ==
    /\ staffList' = StaffListOf(staffMasters', monthlyInputs',
                                monthKey(targetYear', targetMonth'))
    /\ supplyReport' = checkSupplyDemand(staffList', targetYear', targetMonth')
    /\ UNCHANGED <<tzOffset, daysInMonth, assignments, weeklyCounts, monthlyCounts,
                   remainingDemand, pc, curDay, curShift, lastCall, workerReport,
                   demandReport, weekOfDay>>

\* handleDayOffChange(staff.id, dates) from the date picker of a listed master.
HandleDayOffChange ==
    /\ pc = "ui"
    /\ \E i \in DOMAIN staffMasters, dates \in SUBSET PickableDates :
          monthlyInputs' = DayOffChanged(monthlyInputs, staffMasters[i].id,
                                         monthKey(targetYear, targetMonth), dates)
    /\ UNCHANGED <<staffMasters, targetYear, targetMonth, formState>>
    /\ Rendered

\* handleDeleteStaff(staff.id) from the delete button of a listed master: the
\* master and its monthly inputs go, editingId and the form stay as they are.
HandleDeleteStaff ==
    /\ pc = "ui"
    /\ \E i \in DOMAIN staffMasters :
          /\ staffMasters' = SelectSeq(staffMasters,
                                       LAMBDA s : s.id # staffMasters[i].id)
          /\ monthlyInputs' = SelectSeq(monthlyInputs,
                                        LAMBDA mi : mi.staffId # staffMasters[i].id)
    /\ UNCHANGED <<targetYear, targetMonth, formState>>
    /\ Rendered

\* onChange of the target month select: setTargetYear(y); setTargetMonth(m).
SelectMonth ==
    /\ pc = "ui"
    /\ \E ym \in RegistryMonths :
          /\ targetYear' = ym[1]
          /\ targetMonth' = ym[2]
    /\ UNCHANGED <<staffMasters, monthlyInputs, formState>>
    /\ Rendered

NextRegistry == HandleDayOffChange \/ HandleDeleteStaff \/ SelectMonth

SpecRegistry == InitRegistry /\ [][NextRegistry]_vars

-----------------------------------------------------------------------------
(* The registration form: typing into it, submitting it, and the edit and    *)
(* delete buttons of the list of masters                                     *)

\* The largest number of ids drawn from crypto.randomUUID.
MaxIssued == 2

\* The n-th id crypto.randomUUID returns: one no stored master carries and no
\* earlier call returned.
NewId(n) == Len(Registered) + n

\* What is typed into the name input.
FormNames == {"p"}

\* The weekday checkboxes and the shift checkboxes that are clicked.
FormDays == {Wed}

FormShifts == {"N"}

\* What is typed into the two number inputs, inside their min and max.
FormMaxPerWeek == {2, 5}

FormExactPerMonth == {4, 20}

\* prev.includes(x) ? prev.filter(y => y !== x) : [...prev, x]
Toggled(prev, x) == IF x \in prev THEN prev \ {x} ELSE prev \cup {x}

\* The record handleSubmit builds from the form: the id under edit, or a new
\* id when editingId is null.
SubmittedRecord ==
    [id            |-> IF editingId # 0 THEN editingId ELSE NewId(issued + 1),
     name          |-> form.name,
     days          |-> form.selectedDays,
     shifts        |-> form.selectedShifts,
     maxPerWeek    |-> form.maxPerWeek,
     exactPerMonth |-> form.exactPerMonth]

\* The updater of setStaffMasters in handleSubmit: with an id under edit,
\* prev.map puts base where the id is; without one, base is appended.
SubmittedInto(prev, base) ==
    IF editingId # 0
       THEN [i \in DOMAIN prev |-> IF prev[i].id = editingId THEN base ELSE prev[i]]
       ELSE Append(prev, base)

\* The component after its first render with nothing stored.
InitForm ==
    /\ staffMasters = << >>
    /\ monthlyInputs = << >>
    /\ targetYear = 2027
    /\ targetMonth = 1
    /\ staffList = << >>
    /\ supplyReport = checkSupplyDemand(<< >>, 2027, 1)
    /\ tzOffset = 0
    /\ daysInMonth = 0
    /\ assignments = << >>
    /\ weeklyCounts = << >>
    /\ monthlyCounts = << >>
    /\ remainingDemand = << >>
    /\ pc = "ui"
    /\ curDay = 1
    /\ curShift = 1
    /\ lastCall = [d |-> 0, shift |-> "", ok |-> FALSE, chosen |-> 0]
    /\ workerReport = << >>
    /\ demandReport = << >>
    /\ weekOfDay = 0
    /\ FormAtRest

\* A render after an update of the form alone: no dependency of the useMemo
\* or of the effect has changed.
FormRendered ==
    UNCHANGED <<staffList, targetYear, targetMonth, tzOffset, daysInMonth,
                assignments, weeklyCounts, monthlyCounts, remainingDemand, pc,
                curDay, curShift, lastCall, workerReport, demandReport,
                supplyReport, weekOfDay, staffMasters, monthlyInputs, issued>>

\* onChange of the name input: setName(e.target.value)
SetName ==
    /\ pc = "ui"
    /\ \E v \in FormNames : form' = [form EXCEPT !.name = v]
    /\ UNCHANGED editingId
    /\ FormRendered

\* onChange of the first number input: setMaxPerWeek(Number(e.target.value))
SetMaxPerWeek ==
    /\ pc = "ui"
    /\ \E v \in FormMaxPerWeek : form' = [form EXCEPT !.maxPerWeek = v]
    /\ UNCHANGED editingId
    /\ FormRendered

\* onChange of the second number input: setExactPerMonth(Number(e.target.value))
SetExactPerMonth ==
    /\ pc = "ui"
    /\ \E v \in FormExactPerMonth : form' = [form EXCEPT !.exactPerMonth = v]
    /\ UNCHANGED editingId
    /\ FormRendered

\* handleDayChange(day) from a weekday checkbox.
HandleDayChange ==
    /\ pc = "ui"
    /\ \E day \in FormDays :
          form' = [form EXCEPT !.selectedDays = Toggled(form.selectedDays, day)]
    /\ UNCHANGED editingId
    /\ FormRendered

\* handleShiftChange(shift) from a shift checkbox.
HandleShiftChange ==
    /\ pc = "ui"
    /\ \E shift \in FormShifts :
          form' = [form EXCEPT !.selectedShifts = Toggled(form.selectedShifts, shift)]
    /\ UNCHANGED editingId
    /\ FormRendered

\* handleEditStaff(staff.id) from the edit button of a listed master: find
\* finds it, the id goes under edit and its fields fill the form.
HandleEditStaff ==
    /\ pc = "ui"
    /\ \E i \in DOMAIN staffMasters :
          LET hits == {j \in DOMAIN staffMasters :
                          staffMasters[j].id = staffMasters[i].id}
              s    == staffMasters[CHOOSE j \in hits : \A k \in hits : j <= k]
          IN  /\ editingId' = s.id
              /\ form' = [name           |-> s.name,
                          selectedDays   |-> s.days,
                          selectedShifts |-> s.shifts,
                          maxPerWeek     |-> s.maxPerWeek,
                          exactPerMonth  |-> s.exactPerMonth]
    /\ FormRendered

\* handleSubmit: base is built, the updater of setStaffMasters runs, editingId
\* and the form are reset; then the render and its effects.
HandleSubmit ==
    /\ pc = "ui"
    /\ editingId = 0 => issued < MaxIssued
    /\ staffMasters' = SubmittedInto(staffMasters, SubmittedRecord)
    /\ issued' = IF editingId # 0 THEN issued ELSE issued + 1
    /\ editingId' = 0
    /\ form' = BlankForm
    /\ UNCHANGED <<monthlyInputs, targetYear, targetMonth>>
    /\ Rendered

NextForm ==
    \/ SetName
    \/ SetMaxPerWeek
    \/ SetExactPerMonth
    \/ HandleDayChange
    \/ HandleShiftChange
    \/ HandleEditStaff
    \/ HandleDeleteStaff
    \/ HandleSubmit

SpecForm == InitForm /\ [][NextForm]_vars

-----------------------------------------------------------------------------
(* Vocabulary of the properties *)

ShiftCodes == {"E", "D", "DL", "N"}

\* The cell values that consume a slot.
Consumed == ShiftCodes \cup {"AK"}

CellValues == {"", "E", "D", "DL", "N", "AK", "OFF"}

\* The week-of-month index of day d of the target month.
WeekOf(d) == getWeekIndex(NewDate(targetYear, targetMonth, d))

WeekIndices == {WeekOf(d) : d \in Days}

\* The number of days of week k whose cell in the row of name consumes a slot.
WeekCells(name, k) ==
    Cardinality({d \in Days : WeekOf(d) = k /\ Cell(name, d) \in Consumed})

\* The number of cells in the row of name that consume a slot.
MonthCells(name) == Cardinality({d \in Days : Cell(name, d) \in Consumed})

Workers == DOMAIN staffList

-----------------------------------------------------------------------------
(* C1 .. C3 *)

\* C1: Weekly cap.  In every state of a run, for every worker w and every
\* week-of-month index k, the number of days of week k whose cell for w is a
\* shift code or AK is at most w.maxPerWeek.
WeeklyCap ==
    \A i \in Workers : \A k \in WeekIndices :
        WeekCells(staffList[i].name, k) <= staffList[i].maxPerWeek

\* C2: Day-off inviolability.  Once the pre-assignment step is over, and so in
\* the final grid, the cell of every (worker, day) whose calendar date is in
\* the worker's requested-days-off set equals OFF, whatever the UTC offset.
DayOffInviolable ==
    pc # "dayoffs" =>
        \A i \in Workers : \A d \in Days :
            <<targetYear, targetMonth + 1, d>> \in staffList[i].dayOffs
                => Cell(staffList[i].name, d) = "OFF"

\* C3: No Day-to-Early turnaround.  In the final grid no worker has E on a
\* day d in 2..N whose day d-1 holds D or DL.
NoDayToEarly ==
    pc = "done" =>
        \A i \in Workers : \A d \in 2 .. daysInMonth :
            ~(/\ Cell(staffList[i].name, d) = "E"
              /\ Cell(staffList[i].name, d - 1) \in {"D", "DL"})

-----------------------------------------------------------------------------
(* C4 .. C7 *)

\* C4: Night-rest pairing.  In every state a cell N on day d has d before the
\* last day and AK on day d+1 of the same row; a step that writes N on d finds
\* the cell of d+1 empty; and no step that changes the grid changes a cell
\* that holds N or AK.
NightRestPairing ==
    /\ [](\A n \in Names : \A d \in Days :
            Cell(n, d) = "N" => d < daysInMonth /\ Cell(n, d + 1) = "AK")
    /\ [][assignments' # assignments =>
            \A n \in Names : \A d \in Days :
               /\ (Cell(n, d) # "N" /\ Cell(n, d)' = "N") => Cell(n, d + 1) = ""
               /\ Cell(n, d) \in {"N", "AK"} => Cell(n, d)' = Cell(n, d)]_vars

\* C4 witness: assignShift has just placed a Night and its AK, next to a day
\* the worker has off.
NightPlaced ==
    /\ lastCall.ok
    /\ lastCall.shift = "N"
    /\ Cell(staffList[lastCall.chosen].name, lastCall.d) = "N"
    /\ Cell(staffList[lastCall.chosen].name, lastCall.d + 1) = "AK"
    /\ \E d \in Days : Cell(staffList[lastCall.chosen].name, d) = "OFF"

\* C5: Write-once cells.  No step that changes the grid changes a cell that
\* holds OFF, a shift code or AK, and every step after the pre-assignment
\* step that changes a cell (a day of the month or the key after the last
\* day) finds it empty.
WriteOnce ==
    [][assignments' # assignments =>
          \A n \in Names : \A d \in 1 .. daysInMonth + 1 :
             /\ Cell(n, d) \in CellValues \ {""} => Cell(n, d)' = Cell(n, d)
             /\ (pc # "dayoffs" /\ Cell(n, d)' # Cell(n, d)) => Cell(n, d) = ""]_vars

\* C5 witness: a finished run whose grid has a row with OFF, N, AK and empty cells.
MixedRowDone ==
    /\ pc = "done"
    /\ \E n \in Names :
          /\ \E d \in Days : Cell(n, d) = "OFF"
          /\ \E d \in Days : Cell(n, d) = "N"
          /\ \E d \in Days : Cell(n, d) = "AK"
          /\ \E d \in Days : Cell(n, d) = ""

\* C6: Grid completeness.  At the end of a run the grid has a row for every
\* listed worker, each row has exactly the days 1..daysInMonth as keys, and
\* every cell is one of '', E, D, DL, N, AK, OFF.
GridComplete ==
    pc = "done" =>
        /\ \A i \in Workers : staffList[i].name \in DOMAIN assignments
        /\ \A n \in DOMAIN assignments :
              /\ DOMAIN assignments[n] = 1 .. daysInMonth
              /\ \A d \in 1 .. daysInMonth : assignments[n][d] \in CellValues

\* C6 witness: a finished run with a Night on the day before the last and
\* its AK on the last day.
LastDayRest ==
    /\ pc = "done"
    /\ \E n \in Names : /\ Cell(n, daysInMonth - 1) = "N"
                        /\ Cell(n, daysInMonth) = "AK"

\* C7: Monotonic demand.  Every remaining-demand counter is never negative,
\* equals the demand table's value for the day's weekday until Pass1 starts,
\* and no step increases it.
MonotonicDemand ==
    /\ [](\A d \in Days : \A k \in {"E", "D", "N"} :
            /\ remainingDemand[d][k] >= 0
            /\ pc = "dayoffs" =>
                  remainingDemand[d][k] =
                     demandPerWeekday(GetDay(NewDate(targetYear, targetMonth, d)))[k])
    /\ [][\A d \in Days : \A k \in {"E", "D", "N"} :
            remainingDemand[d][k]' <= remainingDemand[d][k]]_vars

\* C7 witness: Pass2 has just made an assignment for a (day, kind) whose
\* remaining demand is 0.
OvershootPlaced ==
    /\ pc = "pass2"
    /\ lastCall.ok
    /\ remainingDemand[lastCall.d][lastCall.shift] = 0

-----------------------------------------------------------------------------
(* C8 .. C10 *)

\* C8: Monthly quota is never exceeded.  In every state of a run with
\* non-negative quotas each worker's monthly count is at most exactPerMonth,
\* and every step of Pass1 or Pass2 that changes the grid chose a worker with
\* remaining monthly capacity of at least 1, at least 2 for a Night.
MonthlyQuota ==
    /\ [](\A i \in Workers :
            staffList[i].exactPerMonth >= 0 =>
                MonthlyCount(staffList[i].name) <= staffList[i].exactPerMonth)
    /\ [][(pc # "dayoffs" /\ assignments' # assignments) =>
            Remaining(staffList[lastCall'.chosen]) >=
                (IF lastCall'.shift = "N" THEN 2 ELSE 1)]_vars

\* The worker of Scenario A is the only worker of a thirty-day month.
ScenarioA ==
    /\ Len(staffList) = 1
    /\ staffList[1].days = AllDays
    /\ staffList[1].shifts = {"E", "D", "N"}
    /\ staffList[1].maxPerWeek = 5
    /\ staffList[1].exactPerMonth = 20
    /\ staffList[1].dayOffs = {}
    /\ daysInMonth = 30

\* C9: Scenario A.  Every run of the Scenario A worker over a thirty-day
\* month, whatever the weekday of day 1, ends with the monthly count and the
\* number of consumed cells equal to 20 and with no week-of-month bucket,
\* counted or in the grid, above 5.
ScenarioAQuota ==
    (pc = "done" /\ ScenarioA) =>
        /\ MonthlyCount(staffList[1].name) = 20
        /\ MonthCells(staffList[1].name) = 20
        /\ \A k \in WeekIndices :
              /\ WeeklyCount(staffList[1].name, k) <= 5
              /\ WeekCells(staffList[1].name, k) <= 5

\* C9 witness: a finished Scenario A run of a month whose day 1 is a Sunday,
\* so the first bucket has one day and the quota is met in the fifth bucket.
ScenarioADone ==
    /\ pc = "done"
    /\ ScenarioA
    /\ GetDay(NewDate(targetYear, targetMonth, 1)) = Sun
    /\ Cell(staffList[1].name, 1) = "E"
    /\ WeekCells(staffList[1].name, 4) = 4

RECURSIVE DeficitList(_)
\* The workers among the first n whose exactPerMonth exceeds the number of
\* consumed cells of their row, each with the difference, in list order.
DeficitList(n) ==
    IF n = 0 THEN <<>>
    ELSE LET s       == staffList[n]
             deficit == s.exactPerMonth - MonthCells(s.name)
         IN  IF deficit > 0 THEN Append(DeficitList(n - 1), <<s.name, deficit>>)
                            ELSE DeficitList(n - 1)

RECURSIVE CapSum(_, _)
\* The slots maxPerWeek allows in the buckets 0..k: in each bucket the
\* smaller of maxPerWeek and the bucket's number of days.
CapSum(s, k) ==
    IF k < 0 THEN 0
    ELSE LET len == Cardinality({d \in Days : WeekOf(d) = k})
         IN  (IF s.maxPerWeek < len THEN s.maxPerWeek ELSE len) + CapSum(s, k - 1)

\* The most slots the weekly cap allows a worker in the month, whatever the
\* worker's availability.
CapAllows(s) == CapSum(s, WeekOf(daysInMonth))

\* The worker shortfall report is the list of the workers whose exactPerMonth
\* exceeds the consumed cells of their row, each with that difference.
ReportIsDeficits == pc = "done" => workerReport = DeficitList(Len(staffList))

\* C10: Worker shortfall report.  At the end of a run the report names
\* exactly the workers with a positive difference between exactPerMonth and
\* their consumed cells, each with that difference; in particular every
\* worker whose exactPerMonth exceeds what maxPerWeek allows in the month is
\* in the report with a positive deficit.
WorkerShortfall ==
    pc = "done" =>
        /\ workerReport = DeficitList(Len(staffList))
        /\ \A i \in Workers :
              staffList[i].exactPerMonth > CapAllows(staffList[i]) =>
                  \E j \in DOMAIN workerReport :
                      /\ workerReport[j][1] = staffList[i].name
                      /\ workerReport[j][2] > 0
                      /\ workerReport[j][2] =
                            staffList[i].exactPerMonth - MonthCells(staffList[i].name)

-----------------------------------------------------------------------------
(* C11 .. C15 *)

\* The cell values that staff the demand of kind k.
CodesOf(k) == IF k = "D" THEN {"D", "DL"} ELSE {k}

\* The number of workers of the list whose cell on day d staffs kind k.
Staffed(d, k) ==
    Cardinality({i \in Workers : Cell(staffList[i].name, d) \in CodesOf(k)})

\* max(0, table demand of (weekday of d, k) - workers staffing k on d)
Deficit(d, k) ==
    LET table == demandPerWeekday(GetDay(NewDate(targetYear, targetMonth, d)))[k]
    IN  IF table > Staffed(d, k) THEN table - Staffed(d, k) ELSE 0

\* <<d, k, deficit>> for each of the first n (day, kind) pairs, day by day
\* and in the order E, D, N, whose deficit is positive.
DemandDeficitList(n) ==
    LET day(i)  == ((i - 1) \div Len(shiftOrder)) + 1
        kind(i) == shiftOrder[((i - 1) % Len(shiftOrder)) + 1]
        all     == [i \in 1 .. n |-> <<day(i), kind(i), Deficit(day(i), kind(i))>>]
    IN  SelectSeq(all, LAMBDA w : w[3] > 0)

\* C11: Demand shortfall report.  At the end of a run the demand report lists
\* (d, k) exactly when the table demand of (weekday of d, k) exceeds the number
\* of workers whose cell on d is k (D or DL for Day), with the difference as
\* the deficit; and a worker who asked day d off, on a day where every kind
\* has unmet demand, has OFF in the cell and the day's deficits are reported.
DemandShortfall ==
    pc = "done" =>
        /\ demandReport = DemandDeficitList(daysInMonth * Len(shiftOrder))
        /\ \A i \in Workers : \A d \in Days :
              (/\ <<targetYear, targetMonth + 1, d>> \in staffList[i].dayOffs
               /\ \A k \in {"E", "D", "N"} : Deficit(d, k) > 0)
                 => /\ Cell(staffList[i].name, d) = "OFF"
                    /\ \A k \in {"E", "D", "N"} :
                          \E j \in DOMAIN demandReport :
                             demandReport[j] = <<d, k, Deficit(d, k)>>

\* The loop condition holds: the next step is a call of assignShift for
\* (curDay, shiftOrder[curShift]).
CallPending ==
    \/ pc = "pass1" /\ remainingDemand[curDay][shiftOrder[curShift]] > 0
    \/ pc = "pass2" /\ staffHasRemaining

\* C12: Scenario C.  A call of assignShift(d, kind) in a state where some
\* worker is eligible returns true, chooses an eligible worker, and changes
\* the cell on day d of exactly one worker of the list, the chosen one, also
\* when several eligible workers tie: never two workers, never none.
OneAssigned ==
    [][(CallPending /\ Candidates(curDay, shiftOrder[curShift]) # {}) =>
          /\ lastCall'.ok
          /\ lastCall'.chosen \in Candidates(curDay, shiftOrder[curShift])
          /\ {i \in Workers : Cell(staffList[i].name, curDay)' #
                                   Cell(staffList[i].name, curDay)}
                = {lastCall'.chosen}]_vars

\* C13: Termination.  Every run reaches its end, and every iteration of the
\* inner while loop of Pass1 or Pass2 either raises the monthly count of the
\* chosen worker, which stays at most that worker's exactPerMonth, or leaves
\* the loop because assignShift returned false.
Termination ==
    /\ <>(pc = "done")
    /\ [][CallPending =>
            \/ /\ lastCall'.ok
               /\ \E i \in Workers :
                     /\ i = lastCall'.chosen
                     /\ MonthlyCount(staffList[i].name)' > MonthlyCount(staffList[i].name)
                     /\ MonthlyCount(staffList[i].name)' <= staffList[i].exactPerMonth
               /\ <<pc, curDay, curShift>>' = <<pc, curDay, curShift>>
            \/ /\ ~lastCall'.ok
               /\ <<pc, curDay, curShift>>' # <<pc, curDay, curShift>>
               /\ monthlyCounts' = monthlyCounts]_vars

\* C13 witness: a run has ended with the quota of every worker used up, so
\* that the loops of Pass2 ended on the remaining-quota predicate, and with
\* demand left unmet.
QuotaUsedUp ==
    /\ pc = "done"
    /\ \A i \in Workers : Remaining(staffList[i]) = 0
    /\ \E d \in Days : Cell(staffList[1].name, d) \in ShiftCodes
    /\ demandReport # <<>>

\* C14: Availability and capability are respected.  In every state a cell
\* (w, d) that holds E, D, DL or N has the weekday of d among the weekdays of
\* w; E needs the Early capability of w, N the Night capability, D the Day
\* capability, and DL the LateDay capability without the Day capability.
AvailabilityRespected ==
    \A i \in Workers : \A d \in Days :
        LET s == staffList[i]
            c == Cell(s.name, d)
        IN  /\ c \in ShiftCodes => GetDay(NewDate(targetYear, targetMonth, d)) \in s.days
            /\ c = "E" => "E" \in s.shifts
            /\ c = "N" => "N" \in s.shifts
            /\ c = "D" => "D" \in s.shifts
            /\ c = "DL" => ("DL" \in s.shifts /\ "D" \notin s.shifts)

\* C15: No Night on the last day.  In every state, of Pass1 and of Pass2
\* alike, no cell of the last day holds N and no row has a key after the
\* last day.
NoNightOnLastDay ==
    \A n \in Names :
        /\ Cell(n, daysInMonth) # "N"
        /\ daysInMonth + 1 \notin DOMAIN assignments[n]

\* C15 witness: assignShift has just returned false for Night on the last
\* day although a Night worker is free and available that day and has a
\* weekly slot and two monthly slots left.
LastDayNightRefused ==
    /\ lastCall.d = daysInMonth
    /\ lastCall.shift = "N"
    /\ ~lastCall.ok
    /\ \E i \in Workers :
          LET s == staffList[i]
          IN  /\ "N" \in s.shifts
              /\ Cell(s.name, daysInMonth) = ""
              /\ GetDay(NewDate(targetYear, targetMonth, daysInMonth)) \in s.days
              /\ Remaining(s) >= 2
              /\ WeekOk(s, daysInMonth)

-----------------------------------------------------------------------------
(* C16 .. C20 *)

\* The weekday (0 = Sunday) of day d of the target month.
WeekdayOf(d) == GetDay(NewDate(targetYear, targetMonth, d))

\* C16: Week index.  With offset = (weekday of day 1 + 6) mod 7 the index of
\* a day is floor((day + offset - 1) / 7); day 1 has index 0 whatever its
\* weekday; from a day to the next the index never decreases and grows, by
\* exactly 1, exactly when the next day is a Monday; no index covers more
\* than 7 days.
WeekIndexLaw ==
    /\ [](pc = "calendar" =>
            /\ weekOfDay = (curDay + ((WeekdayOf(1) + 6) % 7) - 1) \div 7
            /\ curDay = 1 => weekOfDay = 0
            /\ Cardinality({d \in Days : WeekOf(d) = weekOfDay}) <= 7)
    /\ [][pc = "calendar" =>
            /\ weekOfDay' >= weekOfDay
            /\ weekOfDay' = weekOfDay + 1 <=> WeekdayOf(curDay') = Mon
            /\ weekOfDay' = weekOfDay <=> WeekdayOf(curDay') # Mon]_vars

\* C16 witness: day 1 is a Sunday and getWeekIndex has put day 2, a Monday,
\* into bucket 1.
MondayAfterFirstSunday ==
    /\ pc = "calendar"
    /\ WeekdayOf(1) = Sun
    /\ curDay = 2
    /\ weekOfDay = 1

\* Leap years of the Gregorian calendar.
IsLeapYear(year) == (year % 4 = 0 /\ year % 100 # 0) \/ year % 400 = 0

\* The Gregorian length of the 0-based month of year.
GregorianLength(year, month) ==
    IF month = 1 THEN (IF IsLeapYear(year) THEN 29 ELSE 28)
    ELSE IF month \in {3, 5, 8, 10} THEN 30
    ELSE 31

\* C17: getDaysInMonth(year, month) with a 0-based month is the Gregorian
\* length of the month, for all twelve months: 28 for February of a common
\* year, 29 for February of a leap year, 30 for April, June, September and
\* November, 31 otherwise.
DaysInMonthGregorian ==
    (pc \in {"first", "calendar"} /\ targetMonth \in 0 .. 11) =>
        daysInMonth = GregorianLength(targetYear, targetMonth)

\* C17 witness: the 28 days of February 2100, a century year that is not a
\* leap year, have been walked through.
CenturyFebruary ==
    /\ pc = "calendar"
    /\ targetYear = 2100
    /\ targetMonth = 1
    /\ daysInMonth = 28
    /\ curDay = daysInMonth

RECURSIVE SumOver(_, _)
\* The sum of f[x] over the elements x of the finite set S.
SumOver(S, f) ==
    IF S = {} THEN 0
    ELSE LET x == CHOOSE y \in S : TRUE
         IN  f[x] + SumOver(S \ {x}, f)

\* The demand of kind k over the month: for each weekday, the number of days
\* of the month on that weekday times the table entry.
MonthDemand(k) ==
    SumOver(AllDays, [w \in AllDays |->
        Cardinality({d \in 1 .. getDaysInMonth(targetYear, targetMonth) :
                        WeekdayOf(d) = w}) * demandPerWeekday(w)[k]])

\* floor(exactPerMonth / 2) for a Night-capable worker, 0 for the others.
NightAllocated(s) ==
    IF "N" \in s.shifts
       THEN CHOOSE q \in -50 .. 50 : 2 * q <= s.exactPerMonth /\ s.exactPerMonth < 2 * q + 2
       ELSE 0

\* The supply of kind k of the worker list.
MonthSupply(k) ==
    IF k = "N"
       THEN SumOver({i \in Workers : "N" \in staffList[i].shifts},
                    [i \in Workers |-> NightAllocated(staffList[i])])
       ELSE SumOver({i \in Workers : k \in staffList[i].shifts},
                    [i \in Workers |-> staffList[i].exactPerMonth
                                          - 2 * NightAllocated(staffList[i])])

\* C18: Feasibility checker result.  checkSupplyDemand warns for kind k
\* exactly when the month's demand of k exceeds the supply of k, once, with
\* the difference as magnitude, where the demand sums the table entries of
\* the days' weekdays, the Night supply sums floor(exactPerMonth / 2) over
\* the Night-capable workers and the Early (Day) supply sums exactPerMonth -
\* 2 * nightAllocated over the Early-capable (Day-capable) workers; and the
\* call goes on to the run, warnings or not, with nothing the run reads changed.
SupplyDemandResult ==
    /\ [](pc = "checked" =>
            /\ \A k \in {"E", "D", "N"} :
                  /\ (\E j \in DOMAIN supplyReport : supplyReport[j][1] = k)
                        <=> MonthDemand(k) > MonthSupply(k)
                  /\ \A j \in DOMAIN supplyReport :
                        supplyReport[j][1] = k =>
                            supplyReport[j][2] = MonthDemand(k) - MonthSupply(k)
            /\ \A i, j \in DOMAIN supplyReport :
                  supplyReport[i][1] = supplyReport[j][1] => i = j)
    /\ [][pc = "check" =>
            /\ pc' = "checked"
            /\ UNCHANGED <<staffList, targetYear, targetMonth, tzOffset, daysInMonth,
                           assignments, weeklyCounts, monthlyCounts, remainingDemand,
                           curDay, curShift>>]_vars

\* C18 witness: the check has run for a list with a Night-capable worker of
\* odd quota and has warned for Night and not for Early.
EarlyCoveredNightShort ==
    /\ pc = "checked"
    /\ \E i \in Workers : /\ "N" \in staffList[i].shifts
                           /\ "E" \in staffList[i].shifts
                           /\ staffList[i].exactPerMonth % 2 = 1
    /\ \E j \in DOMAIN supplyReport : supplyReport[j][1] = "N"
    /\ \A j \in DOMAIN supplyReport : supplyReport[j][1] # "E"

\* A record a run has no defined behaviour for: a weekly ceiling below 1, a
\* negative quota or no capability.
IsMalformed(s) == s.maxPerWeek < 1 \/ s.exactPerMonth < 0 \/ s.shifts = {}

\* C19: Malformed input is rejected before a run.  When the worker list holds
\* a worker with maxPerWeek < 1, exactPerMonth < 0 or no capability, the run
\* stops with a validation error before Pass1 and no cell of the grid is
\* ever assigned a shift code or AK.
MalformedRejected ==
    (\E i \in Workers : IsMalformed(staffList[i])) =>
        /\ pc \notin {"pass1", "pass2", "report", "done"}
        /\ \A n \in Names : \A d \in Days : Cell(n, d) \notin Consumed

\* C20: The worker list is read-only for a run.  In every state of a run,
\* and so after generateShiftTable returns, staffList holds the registered
\* records of its ids with their field values and the month's days off, in
\* the order of the registry, whatever the tie-breaks chose.
StaffListReadOnly ==
    /\ [](staffList = ListOf({staffList[i].id : i \in Workers}, targetYear, targetMonth))
    /\ [][staffList' = staffList]_vars

\* C20 witness: a run of the list [a, g] has returned in which the sort put
\* g, the second of the list, before a for the Early slot of day 1, where
\* both were candidates of equal rank, so that a took a Day slot that day.
SortedSecondFirst ==
    /\ pc = "done"
    /\ Len(staffList) = 2
    /\ staffList[1].id = 1
    /\ staffList[2].id = 3
    /\ Cell(staffList[2].name, 1) = "E"
    /\ Cell(staffList[1].name, 1) = "D"

-----------------------------------------------------------------------------
(* C21 .. C25 *)

\* The monthly inputs of worker id for the month key.
EntriesOf(id, key) ==
    {j \in DOMAIN monthlyInputs :
        monthlyInputs[j].staffId = id /\ monthlyInputs[j].month = key}

\* C21: Registry view merge.  For the target month key each worker of
\* staffList has the profile fields of its staff master record, in the order
\* of the masters, and as days off the dayOffs of the monthly input of its id
\* and the target month key, of which there is at most one, or no day off
\* when there is none; the inputs of other months and of other workers do
\* not contribute.
RegistryViewMerge ==
    pc = "ui" =>
        /\ Len(staffList) = Len(staffMasters)
        /\ \A i \in DOMAIN staffList :
              LET entries == EntriesOf(staffList[i].id, monthKey(targetYear, targetMonth))
              IN  /\ StaffMasterOf(staffList[i]) = staffMasters[i]
                  /\ Cardinality(entries) <= 1
                  /\ entries = {} => staffList[i].dayOffs = {}
                  /\ \A j \in entries : staffList[i].dayOffs = monthlyInputs[j].dayOffs

\* C21 witness: the first worker has days off entered for another month only
\* and the second worker, of the same name, for the target month; the first
\* is listed without days off, the second with its own.
OtherEntriesIgnored ==
    /\ pc = "ui"
    /\ Len(staffList) = 2
    /\ staffList[1].name = staffList[2].name
    /\ \E j \in DOMAIN monthlyInputs :
          /\ monthlyInputs[j].staffId = staffList[1].id
          /\ monthlyInputs[j].month # monthKey(targetYear, targetMonth)
          /\ monthlyInputs[j].dayOffs # {}
    /\ \E j \in DOMAIN monthlyInputs :
          /\ monthlyInputs[j].staffId = staffList[2].id
          /\ monthlyInputs[j].month = monthKey(targetYear, targetMonth)
          /\ monthlyInputs[j].dayOffs # {}
          /\ staffList[2].dayOffs = monthlyInputs[j].dayOffs
    /\ staffList[1].dayOffs = {}

\* maxPerWeek - weeklyCount of worker i for the week of day d.
WeeklyLeft(i, d) ==
    staffList[i].maxPerWeek - WeeklyCount(staffList[i].name, WeekOf(d))

\* C22: Ranking.  The worker chosen by a call of assignShift(d, kind) is an
\* eligible candidate; no candidate has a larger remaining monthly capacity,
\* and no candidate with the same remaining monthly capacity has a larger
\* remaining weekly capacity for the week of d: a worker picked in its place
\* is tied with it on both values.
RankingRespected ==
    [][(CallPending /\ lastCall'.ok) =>
          \E i \in Candidates(curDay, shiftOrder[curShift]) :
              /\ i = lastCall'.chosen
              /\ \A j \in Candidates(curDay, shiftOrder[curShift]) :
                    /\ Remaining(staffList[j]) <= Remaining(staffList[i])
                    /\ Remaining(staffList[j]) = Remaining(staffList[i])
                          => WeeklyLeft(j, curDay) <= WeeklyLeft(i, curDay)]_vars

\* C22 witness: assignShift has just chosen, for Early, the second worker of
\* the list over the first, who was a candidate tied with it on both values,
\* and over a third, a candidate with less remaining monthly capacity.
TieWonBySecond ==
    /\ lastCall.ok
    /\ lastCall.shift = "E"
    /\ lastCall.chosen = 2
    /\ Len(staffList) = 3
    /\ Cardinality(Names) = 3
    /\ \A i \in {1, 3} :
          /\ "E" \in staffList[i].shifts
          /\ WeekdayOf(lastCall.d) \in staffList[i].days
          /\ Cell(staffList[i].name, lastCall.d) = ""
          /\ Cell(staffList[i].name, lastCall.d - 1) \notin {"D", "DL"}
          /\ Remaining(staffList[i]) > 0
          /\ WeeklyLeft(i, lastCall.d) > 0
    /\ Remaining(staffList[1]) = Remaining(staffList[2]) + 1
    /\ WeeklyLeft(1, lastCall.d) = WeeklyLeft(2, lastCall.d) + 1
    /\ Remaining(staffList[3]) < Remaining(staffList[2])

\* The effect of a call of assignShift(curDay, kind) that chose worker i, on
\* the row and the counters of worker j.
RowEffect(i, j, kind) ==
    LET name == staffList[j].name
        n    == IF kind = "N" THEN 2 ELSE 1
    IN  IF j # i
           THEN /\ \A d \in 1 .. daysInMonth + 1 : Cell(name, d)' = Cell(name, d)
                /\ \A k \in WeekIndices : WeeklyCount(name, k)' = WeeklyCount(name, k)
                /\ MonthlyCount(name)' = MonthlyCount(name)
           ELSE /\ Cell(name, curDay)' \in CodesOf(kind)
                /\ kind = "N" => Cell(name, curDay + 1)' = "AK"
                /\ \A d \in 1 .. daysInMonth + 1 :
                      (d # curDay /\ ~(kind = "N" /\ d = curDay + 1))
                          => Cell(name, d)' = Cell(name, d)
                /\ \A k \in WeekIndices :
                      WeeklyCount(name, k)' = WeeklyCount(name, k)
                          + (IF k = WeekOf(curDay) THEN 1 ELSE 0)
                          + (IF kind = "N" /\ k = WeekOf(curDay + 1) THEN 1 ELSE 0)
                /\ MonthlyCount(name)' = MonthlyCount(name) + n

\* C23: Effect of one call of assignShift(d, kind).  A call that returns
\* false changes neither the grid nor a counter nor the remaining demand.  A
\* call that returns true changes, of the grid and the counters, only the
\* chosen worker's: the cell on d, and for Night the cell on d+1; the weekly
\* count of the week of d (+1), and for Night that of the week of d+1 (+1, so
\* +2 when it is the same week); the monthly count (+1, for Night +2).  Of the
\* remaining demand it changes only the counter of (d, kind).  No other
\* worker's cell or counter changes.
CallEffect ==
    [][CallPending =>
          LET kind == shiftOrder[curShift]
          IN  IF lastCall'.ok
                 THEN /\ \E i \in Workers :
                            /\ i = lastCall'.chosen
                            /\ \A j \in Workers : RowEffect(i, j, kind)
                      /\ \A d \in Days : \A k \in {"E", "D", "N"} :
                            (d # curDay \/ k # kind)
                                => remainingDemand[d][k]' = remainingDemand[d][k]
                 ELSE UNCHANGED <<assignments, weeklyCounts, monthlyCounts,
                                  remainingDemand>>]_vars

\* The worker list has no two workers of one name.
DistinctNames == Cardinality(Names) = Len(staffList)

\* The demand table's value for the weekday of day d and kind k.
TableDemand(d, k) == demandPerWeekday(WeekdayOf(d))[k]

\* C24: Pass 1 never overshoots demand.  Every step of Pass 1, the one that
\* ends it included, leaves for every day d and kind k at most as many
\* workers with a cell of kind k on d (D or DL for Day) as the demand table
\* has for the weekday of d and k: an assignment beyond that value is made
\* in Pass 2 only.
Pass1NoOvershoot ==
    [][pc = "pass1" =>
          \A d \in Days : \A k \in {"E", "D", "N"} :
              Staffed(d, k)' <= TableDemand(d, k)]_vars

\* The number of cells of the grid that hold a code of kind k.
KindCells(k) ==
    Cardinality({<<n, d>> \in Names \X Days : Cell(n, d) \in CodesOf(k)})

\* C25: Capacity ceiling.  In every state of a run, for every kind k, the
\* grid has at most as many cells of kind k (E for Early, D and DL for Day,
\* N for Night) as the supply of k that checkSupplyDemand computes for the
\* worker list.
CapacityCeiling ==
    \A k \in {"E", "D", "N"} :
        KindCells(k) <= SupplyUpTo(staffList, Len(staffList))[k]

-----------------------------------------------------------------------------
(* C26 .. C30 *)

\* C26: Counter consistency.  In every state of a run over workers with
\* pairwise distinct names each worker's monthly count is the number of that
\* worker's cells that hold E, D, DL, N or AK, each weekly count of a week k
\* is the number of such cells on the days of week index k, the index of day
\* d being floor((d + offset - 1) / 7) with offset = (weekday of day 1 + 6)
\* mod 7, and no weekly count is kept for an index that is no week of the
\* month; OFF and empty cells count for neither.
CounterConsistency ==
    DistinctNames =>
        LET offset  == (WeekdayOf(1) + 6) % 7
            week(d) == (d + offset - 1) \div 7
        IN  \A i \in Workers :
                LET name == staffList[i].name
                    used == {d \in Days : Cell(name, d) \in Consumed}
                IN  /\ MonthlyCount(name) = Cardinality(used)
                    /\ DOMAIN weeklyCounts[name] \subseteq 0 .. week(daysInMonth)
                    /\ \A k \in 0 .. week(daysInMonth) :
                          WeeklyCount(name, k) = Cardinality({d \in used : week(d) = k})

\* C26 witness: a run of two workers of different names has ended; one row
\* holds OFF, empty cells and a Night on a Sunday with its AK on the Monday.
NightAcrossWeeks ==
    /\ pc = "done"
    /\ DistinctNames
    /\ Len(staffList) = 2
    /\ \E n \in Names :
          /\ \E d \in Days : Cell(n, d) = "OFF"
          /\ \E d \in Days : Cell(n, d) = ""
          /\ \E d \in Days : /\ WeekdayOf(d) = Sun
                             /\ Cell(n, d) = "N"
                             /\ Cell(n, d + 1) = "AK"
                             /\ WeekOf(d + 1) = WeekOf(d) + 1

\* The worker has the capability the filter asks for the kind: without it the
\* worker is eligible for the kind on no day.
Capable(s, k) ==
    CASE k = "E" -> "E" \in s.shifts
      [] k = "D" -> DayOk(s)
      [] k = "N" -> "N" \in s.shifts

\* C27: Deficits left by Pass 1 are final.  In every state after Pass 1 a
\* (day, kind) with remaining demand, for which assignShift has returned
\* false in Pass 1, has no eligible candidate (no worker, and so none of
\* those with quota left, the capability and the cell of the day empty,
\* passes the filter): assignShift(day, kind) returns false from then on.
\* And no step of Pass 2 or of the reports changes a remaining-demand
\* counter: the remaining demand at the end of the run is the one at the end
\* of Pass 1.
DeficitsFinal ==
    /\ [](pc \in {"pass2", "report", "done"} =>
            \A i \in Workers :
                Remaining(staffList[i]) > 0 =>
                    \A k \in {"E", "D", "N"} :
                        Capable(staffList[i], k) =>
                            \A d \in Days :
                                (/\ Cell(staffList[i].name, d) = ""
                                 /\ remainingDemand[d][k] > 0) => ~Eligible(i, d, k))
    /\ [][(pc \in {"pass2", "report"}) => remainingDemand' = remainingDemand]_vars

\* C27 witness: a run has ended with a Wednesday on which Pass 2 placed an
\* Early beyond the demand while the Day and Night demand of that day, left
\* open by Pass 1, are still open.
DeficitBesideOvershoot ==
    /\ pc = "done"
    /\ DistinctNames
    /\ \E d \in Days :
          /\ WeekdayOf(d) = Wed
          /\ Staffed(d, "E") > TableDemand(d, "E")
          /\ remainingDemand[d]["D"] > 0
          /\ remainingDemand[d]["N"] > 0

\* C28: Pass 2 is maximal.  When a run has ended with a worker below the
\* monthly quota, no worker is an eligible candidate for any day and any
\* kind: a further call of assignShift would return false for each of them.
Pass2Maximal ==
    (pc \in {"report", "done"} /\ staffHasRemaining) =>
        \A d \in Days : \A k \in {"E", "D", "N"} : Candidates(d, k) = {}

\* C28 witness: a run has ended with a worker below the quota who has the
\* Night capability and an empty cell on a day of their weekdays, followed
\* by another empty cell, and has the week's slots used up.
QuotaOpenCellsFree ==
    /\ pc = "done"
    /\ \E i \in Workers :
          /\ Remaining(staffList[i]) >= 2
          /\ "N" \in staffList[i].shifts
          /\ \E d \in 1 .. daysInMonth - 1 :
                /\ Cell(staffList[i].name, d) = ""
                /\ Cell(staffList[i].name, d + 1) = ""
                /\ WeekdayOf(d) \in staffList[i].days
                /\ ~WeekOk(staffList[i], d)

\* C29: Workers are independent rows.  For two workers of the list with
\* different ids, of equal display names or not, a call of assignShift that
\* chooses one changes neither a cell nor the weekly counts nor the monthly
\* count of the other; and at the end of the run each worker's cells that
\* hold a shift code or AK are at most exactPerMonth in the month and at most
\* maxPerWeek in every week.
IndependentRows ==
    /\ [][(CallPending /\ lastCall'.ok) =>
            \A j \in Workers :
                staffList[j].id # staffList[lastCall'.chosen].id =>
                    /\ assignments'[staffList[j].name] = assignments[staffList[j].name]
                    /\ weeklyCounts'[staffList[j].name] = weeklyCounts[staffList[j].name]
                    /\ monthlyCounts'[staffList[j].name] = monthlyCounts[staffList[j].name]]_vars
    /\ [](pc = "done" =>
            \A i \in Workers :
                /\ MonthCells(staffList[i].name) <= staffList[i].exactPerMonth
                /\ \A k \in WeekIndices :
                      WeekCells(staffList[i].name, k) <= staffList[i].maxPerWeek)

\* C30: AK only follows the same worker's Night.  In every state a cell
\* (w, d) that holds AK has d >= 2 and N in the cell (w, d - 1): no AK on
\* day 1, no AK without a Night on the day before.
RestFollowsNight ==
    \A i \in Workers : \A d \in Days :
        Cell(staffList[i].name, d) = "AK" =>
            /\ d >= 2
            /\ Cell(staffList[i].name, d - 1) = "N"

\* C30 witness: a run has ended with a Night on day 1, its AK on day 2 and
\* an empty cell on day 3 in the row of a worker.
RestOnSecondDay ==
    /\ pc = "done"
    /\ \E i \in Workers :
          /\ Cell(staffList[i].name, 1) = "N"
          /\ Cell(staffList[i].name, 2) = "AK"
          /\ Cell(staffList[i].name, 3) = ""

-----------------------------------------------------------------------------
(* C31 *)

\* The record carries what the form held: name, weekdays, shift kinds,
\* maxPerWeek and exactPerMonth.
CarriesForm(rec, f) ==
    /\ rec.name = f.name
    /\ rec.days = f.selectedDays
    /\ rec.shifts = f.selectedShifts
    /\ rec.maxPerWeek = f.maxPerWeek
    /\ rec.exactPerMonth = f.exactPerMonth

\* C31: Submit always lands.  After any sequence of register, edit, delete
\* and submit events, immediately after a submit the list of masters holds a
\* record that carries the submitted name, weekdays, shift kinds, maxPerWeek
\* and exactPerMonth; a submit while id X is under edit replaces exactly the
\* record of id X (same id, same position, same list length, the others
\* untouched), and a submit with no id under edit appends exactly one record,
\* of an id no listed record carries.
SubmitLands ==
    [][HandleSubmit =>
          /\ \E i \in DOMAIN staffMasters' : CarriesForm(staffMasters'[i], form)
          /\ editingId # 0 =>
                /\ Len(staffMasters') = Len(staffMasters)
                /\ \E i \in DOMAIN staffMasters :
                      /\ staffMasters[i].id = editingId
                      /\ staffMasters'[i].id = editingId
                      /\ CarriesForm(staffMasters'[i], form)
                      /\ \A j \in DOMAIN staffMasters \ {i} :
                            staffMasters'[j] = staffMasters[j]
          /\ editingId = 0 =>
                /\ Len(staffMasters') = Len(staffMasters) + 1
                /\ \A j \in DOMAIN staffMasters :
                      /\ staffMasters'[j] = staffMasters[j]
                      /\ staffMasters[j].id # staffMasters'[Len(staffMasters')].id
                /\ CarriesForm(staffMasters'[Len(staffMasters')], form)]_vars

====
